---------------------------- MODULE Spec2Model ----------------------------
(*
  Melingo engagement backend (src/backend/local_app.py, modal_app.py).

  The model covers the process-wide session store, the /track and /analyze
  handlers (each suspended once, at `await request.body()`), the session
  analyzer analyze_session_behavior, the decision engine get_ai_decision
  with its response scraping, and the fallback heuristic.

  Conventions.
    - A JSON object is a record whose absent keys hold the sentinel Absent.
    - A Python str that the code builds or scrapes from the generation
      response is a sequence of lexical chunks; Python None in such a
      position is the empty sequence (no str the code produces there is
      empty: literals are non-empty and the regex group is [^"]+).
    - A generation response text is a sequence of chunks: the structural
      characters (quote, colon, one whitespace character, brace, comma) are
      chunks of their own, every other chunk is a run of characters that
      contains none of them.
*)
EXTENDS Integers, Sequences, FiniteSets, TLC

VARIABLES
    env,             \* direct call: which app runs, is OPENAI_API_KEY set
    sessions_store,  \* session key -> [events, created_at, last_activity]
    clock,           \* time.time(), advanced once per completed handler
    inflight,        \* handlers suspended at `await request.body()`
    nreq,            \* requests received so far
    received,        \* history: how often /track was posted each storable object
    tracked,         \* history: per key, the events /track acknowledged, in order
    last,            \* the most recently completed handler and its response
    pc,              \* direct call of get_ai_decision: "idle" | "call" | "done"
    analysis,        \* its argument
    outcome,         \* what the generation service does on that call
    result           \* its result

vars == <<env, sessions_store, clock, inflight, nreq, received, tracked, last,
          pc, analysis, outcome, result>>

-----------------------------------------------------------------------------
(* Bounds *)

MaxRequests == 3
MaxInflight == 2
MaxPipelineRequests == 4
MaxTotalEvents == 4

-----------------------------------------------------------------------------
(* JSON values *)

Absent == "<absent>"
Unhashable == "<unhashable>"      \* a JSON array or object used as session_id
NoneKey == "<None>"               \* dict key None: session_id absent or null

SessionIds == {"s1", "s2"}

\* e.get("session_id")
session_id_of(obj) ==
    IF obj.session_id = Absent THEN NoneKey ELSE obj.session_id

None == << >>

Q == "\""
COLON == ":"
SP == " "
NL == "\n"
Whitespace == {SP, NL}


-----------------------------------------------------------------------------
(* Text scanning: `in` on str, and re.search with one capture group *)

\* pat occurs in text starting at chunk i
OccursAt(text, pat, i) ==
    /\ i + Len(pat) - 1 <= Len(text)
    /\ \A j \in 1..Len(pat) : text[i + j - 1] = pat[j]

\* Python `pat in text`
Contains(text, pat) ==
    \E i \in 1..Len(text) : OccursAt(text, pat, i)

\* first index >= i whose chunk is not whitespace (Len(text)+1 if none): \s*
RECURSIVE SkipWhitespace(_, _)
SkipWhitespace(text, i) ==
    IF i > Len(text) THEN Len(text) + 1
    ELSE IF text[i] \in Whitespace THEN SkipWhitespace(text, i + 1)
    ELSE i

\* index of the first quote at or after i (0 if none): [^"]* then "
RECURSIVE NextQuote(_, _)
NextQuote(text, i) ==
    IF i > Len(text) THEN 0
    ELSE IF text[i] = Q THEN i
    ELSE NextQuote(text, i + 1)

\* the pattern  "key":\s*"([^"]+)"  matches at chunk i
FieldMatchesAt(text, key, i) ==
    /\ OccursAt(text, <<Q, key, Q, COLON>>, i)
    /\ LET open == SkipWhitespace(text, i + 4)
       IN  /\ open <= Len(text)
           /\ text[open] = Q
           /\ NextQuote(text, open + 1) > open + 1

\* group(1) of the match at chunk i
FieldGroupAt(text, key, i) ==
    LET open == SkipWhitespace(text, i + 4)
    IN  SubSeq(text, open + 1, NextQuote(text, open + 1) - 1)

\* the leftmost chunk at or after i where the pattern matches (0 if none)
RECURSIVE FirstMatch(_, _, _)
FirstMatch(text, key, i) ==
    IF i > Len(text) THEN 0
    ELSE IF FieldMatchesAt(text, key, i) THEN i
    ELSE FirstMatch(text, key, i + 1)

\* re.search(r'"key":\s*"([^"]+)"', text): the leftmost match, or no match
FieldSearch(text, key) ==
    LET first == FirstMatch(text, key, 1)
    IN  IF first > 0
        THEN [matched |-> TRUE, group |-> FieldGroupAt(text, key, first)]
        ELSE [matched |-> FALSE, group |-> None]

-----------------------------------------------------------------------------
(* AIResponse and the fallback heuristic *)

AIResponse(show, message, trigger_type) ==
    [should_show_message |-> show, message |-> message,
     trigger_type |-> trigger_type]

\* dict.get(key, default)
Get(d, key, default) ==
    IF key \in DOMAIN d THEN d[key] ELSE default

\* mutation: the threshold test written as > 3
get_fallback_decision_gt(an) ==
    IF Get(an, "has_cart_items", FALSE)
    THEN AIResponse(TRUE,
            <<"Great choice! Complete your order for free shipping!">>,
            <<"urgency">>)
    ELSE IF Get(an, "total_events", 0) > 3
    THEN AIResponse(TRUE,
            <<"Still browsing? Get 10% off your first order!">>,
            <<"discount">>)
    ELSE AIResponse(FALSE, None, None)

\* mutation: the event-count rule tested before the cart rule
get_fallback_decision_swapped(an) ==
    IF Get(an, "total_events", 0) >= 3
    THEN AIResponse(TRUE,
            <<"Still browsing? Get 10% off your first order!">>,
            <<"discount">>)
    ELSE IF Get(an, "has_cart_items", FALSE)
    THEN AIResponse(TRUE,
            <<"Great choice! Complete your order for free shipping!">>,
            <<"urgency">>)
    ELSE AIResponse(FALSE, None, None)

get_fallback_decision(an) ==
    IF Get(an, "has_cart_items", FALSE)
    THEN AIResponse(TRUE,
            <<"Great choice! Complete your order for free shipping!">>,
            <<"urgency">>)
    ELSE IF Get(an, "total_events", 0) >= 3
    THEN AIResponse(TRUE,
            <<"Still browsing? Get 10% off your first order!">>,
            <<"discount">>)
    ELSE AIResponse(FALSE, None, None)

-----------------------------------------------------------------------------
(* The decision engine *)

\* the literal  should_show_message": true
Indicator == <<"should_show_message", Q, COLON, SP, "true">>

\* mutation: any mention of the field counts as a yes
ParseResponse_lenient(ai_text) ==
    IF Contains(ai_text, <<"should_show_message", Q, COLON>>)
    THEN LET message_match == FieldSearch(ai_text, "message")
             trigger_match == FieldSearch(ai_text, "trigger_type")
         IN  AIResponse(TRUE,
                IF message_match.matched THEN message_match.group
                ELSE <<"Special offer just for you!">>,
                IF trigger_match.matched THEN trigger_match.group
                ELSE <<"discount">>)
    ELSE AIResponse(FALSE, None, None)

\* the scraping of the response text once it is known to be a str
ParseResponse(ai_text) ==
    IF Contains(ai_text, Indicator)
    THEN LET message_match == FieldSearch(ai_text, "message")
             trigger_match == FieldSearch(ai_text, "trigger_type")
         IN  AIResponse(TRUE,
                IF message_match.matched THEN message_match.group
                ELSE <<"Special offer just for you!">>,
                IF trigger_match.matched THEN trigger_match.group
                ELSE <<"discount">>)
    ELSE AIResponse(FALSE, None, None)

\* texts the generation service may answer with
TextShowUrgency ==
    <<"{", Q, "should_show_message", Q, COLON, SP, "true", ",", SP,
      Q, "message", Q, COLON, SP, Q, "Hurry", Q, ",", SP,
      Q, "trigger_type", Q, COLON, SP, Q, "urgency", Q, "}">>
TextShowUpsell ==
    <<"{", Q, "should_show_message", Q, COLON, SP, "true", ",", NL,
      Q, "message", Q, COLON, NL, SP, Q, "Look", SP, "here", Q, ",", NL,
      Q, "trigger_type", Q, COLON, Q, "upsell", Q, "}">>
TextShowNullTrigger ==
    <<"{", Q, "should_show_message", Q, COLON, SP, "true", ",", SP,
      Q, "message", Q, COLON, SP, Q, Q, ",", SP,
      Q, "trigger_type", Q, COLON, SP, "null", "}">>
TextNoShow ==
    <<"{", Q, "should_show_message", Q, COLON, SP, "false", ",", SP,
      Q, "message", Q, COLON, SP, Q, "Later", Q, ",", SP,
      Q, "trigger_type", Q, COLON, SP, "null", "}">>
TextCompact ==
    <<"{", Q, "should_show_message", Q, COLON, "true", ",",
      Q, "message", Q, COLON, Q, "Hi", Q, ",",
      Q, "trigger_type", Q, COLON, Q, "help", Q, "}">>
TextProse == <<"Sorry", ",", SP, "I", SP, "cannot", SP, "help", ".">>
TextEmpty == << >>

Texts == {TextShowUrgency, TextShowUpsell, TextShowNullTrigger, TextNoShow,
          TextCompact, TextProse, TextEmpty}

\* ParseResponse on each of these texts (a table, so that it is evaluated once)
ParsedTexts == [t \in Texts |-> ParseResponse(t)]

Returned(r, n) == [raised |-> FALSE, ret |-> r, create_calls |-> n]
Raised(n) == [raised |-> TRUE, ret |-> AIResponse(FALSE, None, None),
              create_calls |-> n]

\* OpenAI(...) raises: the outcome says so, or (modal_app, which passes no
\* key) no credential is configured
ClientRaises(e, oc) ==
    \/ oc.kind = "client_raises"
    \/ e.app = "modal" /\ ~e.api_key

\* the body of the try block
TryDecision(an, e, oc) ==
    IF e.app = "local" /\ ~e.api_key
    THEN Returned(get_fallback_decision(an), 0)
    ELSE IF oc.kind = "import_raises" THEN Raised(0)
    ELSE IF ClientRaises(e, oc) THEN Raised(0)
    ELSE IF oc.kind = "create_raises" THEN Raised(1)
    ELSE IF oc.kind = "no_content" THEN Raised(1)
    ELSE Returned(ParsedTexts[oc.text], 1)

\* mutation: the except clause re-raises
get_ai_decision_reraise(an, e, oc) ==
    TryDecision(an, e, oc)

get_ai_decision(an, e, oc) ==
    LET t == TryDecision(an, e, oc)
    IN  IF t.raised
        THEN Returned(get_fallback_decision(an), t.create_calls)
        ELSE t

-----------------------------------------------------------------------------
(* The session analyzer *)

LastEventsKept == 5

\* events[-n:]
LastN(events, n) ==
    IF Len(events) <= n THEN events
    ELSE SubSeq(events, Len(events) - n + 1, Len(events))

\* e["event_type"] raises KeyError
MissingEventType(events) ==
    \E i \in 1..Len(events) : events[i].event_type = Absent

\* events[-1]["timestamp"] - events[0]["timestamp"] raises: KeyError when
\* the key is absent, TypeError when a value is not a number
BadTimestamp(events) ==
    \/ events[Len(events)].ts_kind # "num"
    \/ events[1].ts_kind # "num"

EmptyAnalysis == [k \in {} |-> 0]

analyze_session_behavior(events) ==
    IF events = << >> THEN [raised |-> FALSE, value |-> EmptyAnalysis]
    ELSE IF MissingEventType(events) \/ BadTimestamp(events)
    THEN [raised |-> TRUE, value |-> EmptyAnalysis]
    ELSE
      LET page_views == SelectSeq(events, LAMBDA e : e.event_type = "page_view")
          clicks == SelectSeq(events, LAMBDA e : e.event_type = "click")
          cart_actions ==
              SelectSeq(events, LAMBDA e : e.event_type = "add_to_cart")
          product_pages ==
              SelectSeq(page_views, LAMBDA e : e.page_type = "product")
          cart_pages == SelectSeq(page_views, LAMBDA e : e.page_type = "cart")
      IN  [raised |-> FALSE,
           value |->
             [total_events |-> Len(events),
              page_views |-> Len(page_views),
              clicks |-> Len(clicks),
              cart_actions |-> Len(cart_actions),
              session_duration |->
                  events[Len(events)].timestamp - events[1].timestamp,
              product_page_views |-> Len(product_pages),
              cart_page_views |-> Len(cart_pages),
              current_page |->
                  IF events[Len(events)].page_type = Absent THEN "unknown"
                  ELSE events[Len(events)].page_type,
              has_cart_items |-> Len(cart_actions) > 0,
              events |-> LastN(events, LastEventsKept)]]

-----------------------------------------------------------------------------
(* The session store and the two handlers *)

NewSession(now) ==
    [events |-> << >>, created_at |-> now, last_activity |-> now]

\* mutation: the session record is rebuilt on every event
RecordEvent_overwrite(store, key, ev, now) ==
    LET created == [k \in DOMAIN store \cup {key} |->
                        IF k = key THEN NewSession(now) ELSE store[k]]
    IN  [created EXCEPT ![key].events = Append(@, ev),
                        ![key].last_activity = now]

\* mutation: the event is inserted at the front
RecordEvent_front(store, key, ev, now) ==
    LET created == IF key \notin DOMAIN store
                   THEN [k \in DOMAIN store \cup {key} |->
                            IF k = key THEN NewSession(now) ELSE store[k]]
                   ELSE store
    IN  [created EXCEPT ![key].events = <<ev>> \o @,
                        ![key].last_activity = now]

\* the lookup-create-append block of track_event
RecordEvent(store, key, ev, now) ==
    LET created == IF key \notin DOMAIN store
                   THEN [k \in DOMAIN store \cup {key} |->
                            IF k = key THEN NewSession(now) ELSE store[k]]
                   ELSE store
    IN  [created EXCEPT ![key].events = Append(@, ev),
                        ![key].last_activity = now]

ErrorResponse(msg) == [error |-> msg]
SessionNotFound == ErrorResponse("Session not found")

\* the fixed decision of analyze_session's except clause
DefaultDecision ==
    [should_show_message |-> TRUE,
     message |-> <<"Thanks for browsing! Get 15% off your first order!">>,
     trigger_type |-> <<"discount">>]

\* what raises between reading the body and the store lookup:
\* json.loads (JSONDecodeError / UnicodeDecodeError), .get on a value that
\* is no dict (AttributeError), `in` on an unhashable key (TypeError)
BodyError(body) ==
    IF body.kind = "malformed" THEN "JSONDecodeError"
    ELSE IF body.kind = "nonobject" THEN "AttributeError"
    ELSE IF body.obj.session_id = Unhashable THEN "TypeError"
    ELSE "none"

\* track_event after its await: the new store and the response
track_event(store, body, now) ==
    IF BodyError(body) # "none"
    THEN [store |-> store, resp |-> ErrorResponse(BodyError(body))]
    ELSE LET session_id == session_id_of(body.obj)
         IN  [store |-> RecordEvent(store, session_id, body.obj, now),
              resp |-> [status |-> "success", session_id |-> session_id]]

NotAnalyzed == [raised |-> FALSE, value |-> EmptyAnalysis]

\* mutation: the membership test is missing, the lookup raises KeyError
analyze_session_nocheck(store, body, e, oc) ==
    IF BodyError(body) # "none"
    THEN [resp |-> DefaultDecision, analyzed |-> FALSE,
          summary |-> NotAnalyzed, create_calls |-> 0]
    ELSE LET session_id == session_id_of(body.obj)
         IN  IF session_id \notin DOMAIN store
             THEN [resp |-> DefaultDecision, analyzed |-> FALSE,
                   summary |-> NotAnalyzed, create_calls |-> 0]
             ELSE LET a == analyze_session_behavior(store[session_id].events)
                      d == get_ai_decision(a.value, e, oc)
                  IN  IF a.raised
                      THEN [resp |-> DefaultDecision, analyzed |-> TRUE,
                            summary |-> a, create_calls |-> 0]
                      ELSE IF d.raised
                      THEN [resp |-> DefaultDecision, analyzed |-> TRUE,
                            summary |-> a, create_calls |-> d.create_calls]
                      ELSE [resp |-> d.ret, analyzed |-> TRUE,
                            summary |-> a, create_calls |-> d.create_calls]

\* analyze_session after its await: the response, with what the analyzer
\* returned and how often the generation service was called
analyze_session(store, body, e, oc) ==
    IF BodyError(body) # "none"
    THEN [resp |-> DefaultDecision, analyzed |-> FALSE,
          summary |-> NotAnalyzed, create_calls |-> 0]
    ELSE LET session_id == session_id_of(body.obj)
         IN  IF session_id \notin DOMAIN store
             THEN [resp |-> SessionNotFound, analyzed |-> FALSE,
                   summary |-> NotAnalyzed, create_calls |-> 0]
             ELSE LET a == analyze_session_behavior(store[session_id].events)
                      d == get_ai_decision(a.value, e, oc)
                  IN  IF a.raised
                      THEN [resp |-> DefaultDecision, analyzed |-> TRUE,
                            summary |-> a, create_calls |-> 0]
                      ELSE IF d.raised
                      THEN [resp |-> DefaultDecision, analyzed |-> TRUE,
                            summary |-> a, create_calls |-> d.create_calls]
                      ELSE [resp |-> d.ret, analyzed |-> TRUE,
                            summary |-> a, create_calls |-> d.create_calls]

-----------------------------------------------------------------------------
(* Inputs *)

Event(sid, etype, ptype, tkind, ts) ==
    [session_id |-> sid, event_type |-> etype, page_type |-> ptype,
     ts_kind |-> tkind, timestamp |-> ts]

\* JSON objects a client may post to /track
TrackObjects ==
    { Event("s1", "page_view", "product", "num", 0),
      Event("s1", "click", Absent, "num", 1),
      Event("s2", "click", Absent, "num", 0),
      Event(Absent, "click", Absent, "num", 0),
      Event(Unhashable, "click", Absent, "num", 0) }

\* JSON objects one browser tab (and a second one, once) may post to /track
PipelineTrackObjects ==
    { Event("s1", "page_view", "product", "num", 1),
      Event("s1", "click", Absent, "num", 2),
      Event("s1", "add_to_cart", Absent, "num", 0),
      Event("s1", Absent, Absent, "num", 1),
      Event("s1", "click", Absent, "absent", 0),
      Event("s1", "page_view", "cart", "str", 0),
      Event("s2", "click", Absent, "num", 0) }

AnalyzeObject(sid) == Event(sid, Absent, Absent, "absent", 0)

\* JSON objects a client may post to /analyze
AnalyzeObjects ==
    { AnalyzeObject(sid) : sid \in SessionIds \cup {Absent, Unhashable} }

ObjectBody(obj) == [kind |-> "object", obj |-> obj]
MalformedBody == [kind |-> "malformed", obj |-> AnalyzeObject(Absent)]
NonObjectBody == [kind |-> "nonobject", obj |-> AnalyzeObject(Absent)]

TrackBodies ==
    {ObjectBody(o) : o \in TrackObjects} \cup {MalformedBody, NonObjectBody}
AnalyzeBodies ==
    {ObjectBody(o) : o \in AnalyzeObjects} \cup {MalformedBody, NonObjectBody}

\* the objects /track can store: session_id is hashable
Storable ==
    {o \in TrackObjects \cup PipelineTrackObjects : o.session_id # Unhashable}

PipelineTrackBodies == {ObjectBody(o) : o \in PipelineTrackObjects}
PipelineAnalyzeBodies == {ObjectBody(AnalyzeObject(sid)) : sid \in SessionIds}

Keys == SessionIds \cup {NoneKey}

Outcome(kind, text) == [kind |-> kind, text |-> text]

\* what can happen between `from openai import OpenAI` and reading
\* response.choices[0].message.content
Outcomes ==
    { Outcome(k, TextEmpty) :
        k \in {"import_raises", "client_raises", "create_raises", "no_content"} }
    \cup { Outcome("text", t) : t \in Texts }

Envs == [app : {"local", "modal"}, api_key : BOOLEAN]

\* a configuration and what the service does under it; without a credential
\* the service is never reached and its outcome is immaterial
Calls ==
    { c \in Envs \X Outcomes :
        c[1].api_key \/ c[2] = Outcome("text", TextEmpty) }

\* the calls the store-protocol specification draws from
ProtocolCalls ==
    { <<[app |-> "local", api_key |-> FALSE], Outcome("text", TextEmpty)>>,
      <<[app |-> "local", api_key |-> TRUE],
        Outcome("create_raises", TextEmpty)>>,
      <<[app |-> "modal", api_key |-> TRUE],
        Outcome("text", TextShowUrgency)>> }

\* summaries handed to get_ai_decision when it is called directly
Summaries ==
    {EmptyAnalysis} \cup
    { [total_events |-> n, page_views |-> 0, clicks |-> 0,
       cart_actions |-> IF h THEN 1 ELSE 0,
       session_duration |-> d, product_page_views |-> 0, cart_page_views |-> 0,
       current_page |-> "unknown", has_cart_items |-> h, events |-> << >>] :
         n \in 0..MaxTotalEvents, d \in {-1, 0, 2}, h \in BOOLEAN }

-----------------------------------------------------------------------------
(* The server *)

NoEnv == [app |-> "local", api_key |-> FALSE]

NoRequest ==
    [id |-> 0, ep |-> "none", body |-> MalformedBody, env |-> NoEnv,
     resp |-> ErrorResponse("none"), analyzed |-> FALSE,
     summary |-> NotAnalyzed, create_calls |-> 0]

NoResult == [raised |-> FALSE, ret |-> AIResponse(FALSE, None, None),
             create_calls |-> 0]

\* the module is imported: the store is empty, no request has arrived
Init ==
    /\ env = NoEnv
    /\ sessions_store = [k \in {} |-> NewSession(0)]
    /\ clock = 0
    /\ inflight = {}
    /\ nreq = 0
    /\ received = [o \in Storable |-> 0]
    /\ tracked = [k \in Keys |-> << >>]
    /\ last = NoRequest
    /\ pc = "idle"
    /\ analysis = EmptyAnalysis
    /\ outcome = Outcome("text", TextEmpty)
    /\ result = NoResult

decideVars == <<pc, analysis, outcome, result>>

\* a request reaches a handler, which suspends at `await request.body()`
Receive(ep, body, limit) ==
    /\ nreq < limit
    /\ Cardinality(inflight) < MaxInflight
    /\ nreq' = nreq + 1
    /\ inflight' = inflight \cup {[id |-> nreq + 1, ep |-> ep, body |-> body]}
    /\ received' =
         IF ep = "track" /\ body.kind = "object" /\ body.obj \in Storable
         THEN [received EXCEPT ![body.obj] = @ + 1]
         ELSE received
    /\ UNCHANGED <<env, sessions_store, clock, tracked, last, decideVars>>

\* a /track handler resumes with its body and runs to its return
TrackResume(r) ==
    /\ r \in inflight
    /\ r.ep = "track"
    /\ LET t == track_event(sessions_store, r.body, clock + 1)
       IN  /\ sessions_store' = t.store
           /\ tracked' =
                IF "status" \in DOMAIN t.resp
                THEN [tracked EXCEPT ![t.resp.session_id] = Append(@, r.body.obj)]
                ELSE tracked
           /\ last' = [id |-> r.id, ep |-> "track", body |-> r.body,
                       env |-> NoEnv, resp |-> t.resp, analyzed |-> FALSE,
                       summary |-> NotAnalyzed, create_calls |-> 0]
    /\ clock' = clock + 1
    /\ inflight' = inflight \ {r}
    /\ UNCHANGED <<env, nreq, received, decideVars>>

\* an /analyze handler resumes with its body and runs to its return; e is
\* the configuration os.getenv and OpenAI() find, oc what the service does
AnalyzeResume(r, e, oc) ==
    /\ r \in inflight
    /\ r.ep = "analyze"
    /\ LET a == analyze_session(sessions_store, r.body, e, oc)
       IN  last' = [id |-> r.id, ep |-> "analyze", body |-> r.body,
                    env |-> e,
                    resp |-> a.resp, analyzed |-> a.analyzed,
                    summary |-> a.summary, create_calls |-> a.create_calls]
    /\ inflight' = inflight \ {r}
    /\ UNCHANGED <<env, sessions_store, clock, nreq, received, tracked,
                   decideVars>>

Next ==
    \/ \E body \in TrackBodies : Receive("track", body, MaxRequests)
    \/ \E body \in AnalyzeBodies : Receive("analyze", body, MaxRequests)
    \/ \E r \in inflight : TrackResume(r)
    \/ \E r \in inflight, c \in ProtocolCalls : AnalyzeResume(r, c[1], c[2])

Spec == Init /\ [][Next]_vars

\* one request at a time: a client that waits for each response
NextPipeline ==
    \/ \E body \in PipelineTrackBodies :
          inflight = {} /\ Receive("track", body, MaxPipelineRequests)
    \/ \E body \in PipelineAnalyzeBodies :
          inflight = {} /\ Receive("analyze", body, MaxPipelineRequests)
    \/ \E r \in inflight : TrackResume(r)
    \/ \E r \in inflight, c \in Calls : AnalyzeResume(r, c[1], c[2])

SpecPipeline == Init /\ [][NextPipeline]_vars

-----------------------------------------------------------------------------
(* get_ai_decision called directly on a summary *)

InitDecide ==
    /\ env \in Envs
    /\ sessions_store = [k \in {} |-> NewSession(0)]
    /\ clock = 0
    /\ inflight = {}
    /\ nreq = 0
    /\ received = [o \in Storable |-> 0]
    /\ tracked = [k \in Keys |-> << >>]
    /\ last = NoRequest
    /\ pc = "call"
    /\ analysis \in Summaries
    /\ outcome \in Outcomes
    /\ result = NoResult

Decide ==
    /\ pc = "call"
    /\ result' = get_ai_decision(analysis, env, outcome)
    /\ pc' = "done"
    /\ UNCHANGED <<env, sessions_store, clock, inflight, nreq, received,
                   tracked, last, analysis, outcome>>

NextDecide == Decide

SpecDecide == InitDecide /\ [][NextDecide]_vars

-----------------------------------------------------------------------------
(* Properties *)

StoredEvents(k) ==
    IF k \in DOMAIN sessions_store THEN sessions_store[k].events ELSE << >>

Count(seq, x) == Cardinality({i \in 1..Len(seq) : seq[i] = x})

PageViewS1 == Event("s1", "page_view", "product", "num", 0)
ClickS1 == Event("s1", "click", Absent, "num", 1)

\* C1: for every session key, the stored events are exactly the events of
\* the acknowledged /track calls that carried that key, in the order the
\* calls were handled; a key has a session iff some call carried it.
C1_EventsInArrivalOrder ==
    /\ DOMAIN sessions_store \subseteq Keys
    /\ \A k \in Keys :
         /\ StoredEvents(k) = tracked[k]
         /\ (k \in DOMAIN sessions_store) <=> (tracked[k] # << >>)
         /\ \A i \in 1..Len(tracked[k]) : session_id_of(tracked[k][i]) = k

\* two events of s1 stored in order, and a third call that went to s2
C1_Witness ==
    /\ StoredEvents("s1") = <<PageViewS1, ClickS1>>
    /\ Len(StoredEvents("s2")) = 1

\* C2: an /analyze whose (hashable) session id no acknowledged /track has
\* carried so far answers exactly {error: "Session not found"} and leaves
\* the store as it was, creating no session.
C2_UnseenSessionNotFound ==
    [][\A r \in inflight :
          ( /\ r.ep = "analyze"
            /\ r.body.kind = "object"
            /\ r.body.obj.session_id # Unhashable
            /\ tracked[session_id_of(r.body.obj)] = << >>
            /\ r \notin inflight' )
          => ( /\ last'.id = r.id
               /\ last'.resp = SessionNotFound
               /\ sessions_store' = sessions_store
               /\ session_id_of(r.body.obj) \notin DOMAIN sessions_store' )]_vars

\* the not-found answer for an unseen id while another session is stored
C2_Witness ==
    /\ last.ep = "analyze"
    /\ last.body = ObjectBody(AnalyzeObject("s2"))
    /\ last.resp = SessionNotFound
    /\ DOMAIN sessions_store = {"s1"}

\* C3: a /track or /analyze request whose body is not parseable JSON is
\* answered with an object {error: <string>} and leaves the store unchanged.
C3_MalformedBodyGivesError ==
    [][\A r \in inflight :
          (r.body.kind = "malformed" /\ r \notin inflight')
          => ( /\ last'.id = r.id
               /\ DOMAIN last'.resp = {"error"}
               /\ sessions_store' = sessions_store )]_vars

WellFormed(events) ==
    \A i \in 1..Len(events) :
        events[i].event_type # Absent /\ events[i].ts_kind = "num"

HasCartEvent(events) ==
    \E i \in 1..Len(events) : events[i].event_type = "add_to_cart"

AnalyzedKey == session_id_of(last.body.obj)

\* C4: with no generation configuration, /analyze of a session whose events
\* all carry event_type and a numeric timestamp and include an add_to_cart
\* answers should_show_message = true, trigger_type = "urgency".
C4_CartSessionGetsUrgency ==
    ( /\ last.ep = "analyze"
      /\ last.body.kind = "object"
      /\ ~last.env.api_key
      /\ AnalyzedKey \in DOMAIN sessions_store
      /\ WellFormed(StoredEvents(AnalyzedKey))
      /\ HasCartEvent(StoredEvents(AnalyzedKey)) )
    => ( /\ DOMAIN last.resp =
              {"should_show_message", "message", "trigger_type"}
         /\ last.resp.should_show_message
         /\ last.resp.trigger_type = <<"urgency">> )

\* page_view(product), click, add_to_cart tracked, then analyzed
C4_Witness ==
    /\ last.ep = "analyze"
    /\ ~last.env.api_key
    /\ AnalyzedKey = "s1"
    /\ StoredEvents("s1") =
         << Event("s1", "page_view", "product", "num", 1),
            Event("s1", "click", Absent, "num", 2),
            Event("s1", "add_to_cart", Absent, "num", 0) >>
    /\ last.resp.trigger_type = <<"urgency">>

NoConfiguration == ~env.api_key

\* C5: with no generation configuration get_ai_decision returns: urgency
\* when has_cart_items, whatever total_events; else discount when
\* total_events >= 3; else should_show_message = false, message and
\* trigger_type None (the empty summary included).
C5_NoConfigurationIsFallback ==
    (pc = "done" /\ NoConfiguration)
    => LET has_cart == Get(analysis, "has_cart_items", FALSE)
           total == Get(analysis, "total_events", 0)
       IN  /\ ~result.raised
           /\ has_cart =>
                /\ result.ret.should_show_message
                /\ result.ret.trigger_type = <<"urgency">>
           /\ (~has_cart /\ total >= 3) =>
                /\ result.ret.should_show_message
                /\ result.ret.trigger_type = <<"discount">>
           /\ (~has_cart /\ total <= 2) =>
                result.ret = AIResponse(FALSE, None, None)

C5_Witness ==
    /\ pc = "done"
    /\ NoConfiguration
    /\ analysis # EmptyAnalysis
    /\ ~analysis.has_cart_items
    /\ analysis.total_events = 3
    /\ result.ret.trigger_type = <<"discount">>

\* the import, the client constructor, the create call or the handling of
\* its response raises
ServiceRaises ==
    \/ env.api_key /\ outcome.kind # "text"
    \/ env.app = "modal" /\ ~env.api_key

\* C6: get_ai_decision never raises; when the external path raises it
\* returns the fallback heuristic's decision for the same summary; the
\* service is called at most once.
C6_ErrorsAbsorbedNoRetry ==
    pc = "done"
    => /\ ~result.raised
       /\ result.create_calls <= 1
       /\ ServiceRaises => result.ret = get_fallback_decision(analysis)

C6_Witness ==
    /\ pc = "done"
    /\ env.api_key
    /\ outcome.kind = "create_raises"
    /\ result.create_calls = 1
    /\ analysis # EmptyAnalysis
    /\ analysis.has_cart_items
    /\ result.ret.trigger_type = <<"urgency">>

\* the text does not mention the should_show_message field at all
Unusable(text) == ~Contains(text, <<Q, "should_show_message", Q>>)

\* C7 as stated: a response text that is no usable decision makes
\* get_ai_decision return the fallback heuristic's decision.
C7_UnusableTextFallsBack ==
    (pc = "done" /\ env.api_key /\ outcome.kind = "text"
        /\ Unusable(outcome.text))
    => result.ret = get_fallback_decision(analysis)

\* C7 amended: a response text without the literal  should_show_message": true
\* yields the do-not-show decision (false, None, None), whatever the summary;
\* the fallback is taken when the response carries no text (content is None).
C7_TextWithoutIndicatorIsNoShow ==
    (pc = "done" /\ env.api_key)
    => /\ (outcome.kind = "text" /\ ~Contains(outcome.text, Indicator))
            => (~result.raised /\ result.ret = AIResponse(FALSE, None, None))
       /\ outcome.kind = "no_content"
            => result.ret = get_fallback_decision(analysis)

C7_Witness ==
    /\ pc = "done"
    /\ env.api_key
    /\ outcome = Outcome("text", TextProse)
    /\ analysis # EmptyAnalysis
    /\ analysis.has_cart_items
    /\ result.ret = AIResponse(FALSE, None, None)

\* C8: analyze_session_behavior never raises on the events of a stored
\* session and returns total_events equal to their number.
C8_SummarizeNeverRaises ==
    (last.ep = "analyze" /\ last.analyzed)
    => /\ ~last.summary.raised
       /\ Get(last.summary.value, "total_events", -1)
            = Len(StoredEvents(AnalyzedKey))

Vocabulary ==
    {<<"discount">>, <<"help">>, <<"urgency">>, <<"recommendation">>, None}

\* C9: every decision get_ai_decision returns has its trigger_type in
\* {discount, help, urgency, recommendation, None}.
C9_TriggerInVocabulary ==
    pc = "done" => result.ret.trigger_type \in Vocabulary

InFlightTracks(o) ==
    {r \in inflight : r.ep = "track" /\ r.body = ObjectBody(o)}

\* C10: under every interleaving of /track handlers, each storable object
\* is in its session's events once per request that posted it and has
\* completed: nothing is lost, duplicated or overwritten.
C10_NoEventLost ==
    \A o \in Storable :
        Count(StoredEvents(session_id_of(o)), o)
            + Cardinality(InFlightTracks(o)) = received[o]

\* two first requests for s1 overlapped: the one that arrived first
\* completed last, and both events are stored
C10_Witness ==
    /\ nreq = 2
    /\ inflight = {}
    /\ last.id = 1
    /\ last.body = ObjectBody(PageViewS1)
    /\ StoredEvents("s1") = <<ClickS1, PageViewS1>>

=============================================================================
